---- MODULE Spec2Model ----
(***************************************************************************)
(* Paper lifecycle of the SITE-EMAR 2026 conference front end: the         *)
(* submission module (uploadPaper, getUserPapers, deletePaper), the admin  *)
(* panel (updatePaperStatus, adminDeletePaper, deleteAllPapers,            *)
(* sendStatusUpdateEmail, logAdminActivity) and the role primitives they   *)
(* call (getCurrentUser, isAdmin, getCurrentUserRecord).                   *)
(*                                                                         *)
(* Each client is one browser tab running one operation at a time, signed  *)
(* in as the caller the operation is started with.  An operation is cut at *)
(* its awaits: one action per call to the hosted backend.  Reads of the    *)
(* tab's own session and of the users/admins tables, which nothing changes *)
(* while an operation runs, are taken in the same step as the first call   *)
(* that follows them.  The record store and the bucket answer reads        *)
(* truthfully; a write (insert, update, delete, upload, remove) may be     *)
(* refused by the backend, in which case it has no effect and hands back   *)
(* an error.  Display-only columns (user_name, user_email, paper_title,    *)
(* abstract, keywords, mail subject and body) are passed through by the    *)
(* code and are left out of the rows.                                      *)
(*                                                                         *)
(* Spec runs the paper operations.  SpecAccount runs the account side:     *)
(* login, logout and the guards of auth.js over the browser's session,     *)
(* local storage, location and timers, and the registration form,          *)
(* submitRegistration and processPayment of registration.js over the auth  *)
(* identities, the users rows they insert and the payments table.          *)
(* SpecWorkflow runs every public operation in one tab under the session's *)
(* identity, SpecLifecycle the review of one author's papers by one admin  *)
(* with every status as a target, and SpecConcurrent the author's and the  *)
(* admin's operations in two tabs whose calls interleave.                  *)
(***************************************************************************)
EXTENDS Integers, Sequences, FiniteSets, TLC

\* ---------------------------------------------------------------- bounds
\* operations started in one behaviour
MaxOps == 3

\* ------------------------------------------------------------- constants
MaxSizeMB == 10

Clients == {"c1", "c2"}
\* the tab that runs the operations of Spec, one after the other
Solo == {"c1"}
Null == [null |-> TRUE]
NoAuth == "anon"
AuthIds == {"alice", "bob", "root"}
\* who can be signed in in the tab that starts an operation
Callers == AuthIds \cup {NoAuth}
\* identities that can sign in on the login page
Accounts == AuthIds \cup {"carol"}
\* e-mail addresses typed into the registration form
NewEmails == {"dave", "erin"}
\* passwords typed into the registration form: none, or one
Passwords == {"", "secret1"}

\* category values, as sequences of characters
ListenerPrefix == <<"l", "i", "s", "t", "e", "n", "e", "r", "_">>
ListenerWord == <<"l", "i", "s", "t", "e", "n", "e", "r">>
Scholar == <<"s", "c", "h", "o", "l", "a", "r">>
Expert == <<"e", "x", "p", "e", "r", "t">>
Student == <<"s", "t", "u", "d", "e", "n", "t">>
Scientist == <<"s", "c", "i", "e", "n", "t", "i", "s", "t">>
\* what the category radio group can hand to the submit handler; the empty
\* sequence stands for no radio checked
RawCategories ==
    { <<>>,
      ListenerPrefix \o Student,
      ListenerPrefix,
      ListenerWord,
      Scholar,
      Scholar \o <<"s">>,
      Expert,
      Student,
      <<"a", "u", "t", "h", "o", "r">> }
PaperIds == 1..MaxOps
KnownStatuses == {"pending", "under_review", "accepted", "rejected", "revision_required"}
\* what the review prompt can hand to updatePaperStatus: free text
StatusInputs == {"pending", "under_review", "accepted", "approved"}
CommentInputs == {"", "Great work"}

\* rows of the users table
users ==
    { [id |-> "U1", auth_id |-> "alice", full_name |-> "Alice", email |-> "alice@x"],
      [id |-> "U2", auth_id |-> "bob", full_name |-> "Bob", email |-> "bob@x"],
      [id |-> "U3", auth_id |-> "carol", full_name |-> "Carol", email |-> "carol@x"] }

\* rows of the admins table: root is an active admin with no users row, bob a
\* registered user whose admin row has been deactivated, carol a registered
\* user who is also an active admin
admins ==
    { [id |-> "A1", auth_id |-> "root", full_name |-> "Root", email |-> "root@x",
       role |-> "admin", is_active |-> TRUE],
      [id |-> "A2", auth_id |-> "bob", full_name |-> "Bob", email |-> "bob@x",
       role |-> "admin", is_active |-> FALSE],
      [id |-> "A3", auth_id |-> "carol", full_name |-> "Carol", email |-> "carol@x",
       role |-> "admin", is_active |-> TRUE] }

\* files the user can pick: name as a sequence of characters, size in bytes
Files ==
    { [name |-> <<"b", ".", "D", "O", "C", "X">>, size |-> 10485760],
      [name |-> <<"c", ".", "p", "d", "f", ".", "e", "x", "e">>, size |-> 2097152],
      [name |-> <<"d", ".", "d", "o", "c">>, size |-> 10485761],
      [name |-> <<"p", "d", "f">>, size |-> 2097152] }

AllowedTypes ==
    { <<".", "p", "d", "f">>, <<".", "d", "o", "c">>, <<".", "d", "o", "c", "x">> }

VARIABLES
    papers,               \* rows of the papers table
    bucket,               \* keys of the objects in the papers bucket
    activity_logs,        \* rows of the activity_logs table, in insertion order
    email_notifications,  \* rows of the email_notifications table, in insertion order
    nextId,               \* id the record store gives the next paper row
    opCount,              \* operations started so far; the clock ticks once per operation
    pc,                   \* client -> position in the running operation
    loc,                  \* client -> operation, caller, arguments, locals and issued calls
    result,               \* client -> value the finished operation returned, until its caller has read it
    session,              \* identity of the browser's auth session, NoAuth when there is none
    localStorage,         \* key -> value of the browser's local storage
    location,             \* client -> window.location.href
    timer,                \* client -> the redirects that setTimeout calls have scheduled
    auth_users,           \* identities created by signUp
    registrations,        \* rows of the users table inserted by submitRegistration
    payments              \* rows of the payments table

paperVars == <<papers, bucket, activity_logs, email_notifications, nextId>>
accountVars == <<session, localStorage, location, timer, auth_users, registrations, payments>>

vars == <<papers, bucket, activity_logs, email_notifications,
          nextId, opCount, pc, loc, result,
          session, localStorage, location, timer, auth_users, registrations, payments>>

\* ------------------------------------------------------- format helpers

Max2(a, b) == IF a >= b THEN a ELSE b

toLowerCase(s) ==
    [i \in 1..Len(s) |->
        CASE s[i] = "D" -> "d"
          [] s[i] = "O" -> "o"
          [] s[i] = "C" -> "c"
          [] s[i] = "X" -> "x"
          [] s[i] = "P" -> "p"
          [] s[i] = "F" -> "f"
          [] s[i] = "E" -> "e"
          [] OTHER -> s[i]]

\* String.prototype.lastIndexOf for a one-character needle: 0-based, -1 if absent
lastIndexOf(s, ch) ==
    LET hits == {i \in 1..Len(s) : s[i] = ch}
    IN  IF hits = {} THEN -1 ELSE (CHOOSE i \in hits : \A j \in hits : j <= i) - 1

\* String.prototype.substring(start): a negative start counts as 0
substring(s, start) == SubSeq(s, Max2(start, 0) + 1, Len(s))

\* variant: the check accepts a name that merely contains an allowed type
isValidFileType_contains(fileName, allowedTypes) ==
    LET lower == toLowerCase(fileName)
    IN  \E i \in 1..Len(lower), j \in 1..Len(lower) : SubSeq(lower, i, j) \in allowedTypes

isValidFileType(fileName, allowedTypes) ==
    LET extension == substring(toLowerCase(fileName), lastIndexOf(fileName, "."))
    IN  extension \in allowedTypes

\* variant: the size is rounded down to whole megabytes before the comparison
isValidFileSize_whole_mb(fileSize, maxSizeMB) ==
    LET sizeMB == fileSize \div (1024 * 1024)
    IN  sizeMB <= maxSizeMB

isValidFileSize(fileSize, maxSizeMB) ==
    LET maxBytes == maxSizeMB * 1024 * 1024
    IN  fileSize <= maxBytes

\* ----------------------------------------------------- backend gateway

\* .single(): the one matching row, or an error when there is none or several
single(rows) ==
    IF Cardinality(rows) = 1
    THEN [data |-> CHOOSE r \in rows : TRUE, error |-> FALSE]
    ELSE [data |-> Null, error |-> TRUE]

getCurrentUser(a) == IF a = NoAuth THEN Null ELSE [id |-> a]

\* variant: the query loses its is_active filter
isAdmin_inactive_too(a) ==
    LET user == getCurrentUser(a)
    IN  IF user = Null THEN Null
        ELSE LET r == single({x \in admins : x.auth_id = user.id})
             IN  IF r.error THEN Null ELSE r.data

\* variant: the query loses its auth_id filter
isAdmin_any_auth(a) ==
    LET user == getCurrentUser(a)
    IN  IF user = Null THEN Null
        ELSE LET r == single({x \in admins : x.is_active = TRUE})
             IN  IF r.error THEN Null ELSE r.data

isAdmin(a) ==
    LET user == getCurrentUser(a)
    IN  IF user = Null THEN Null
        ELSE LET r == single({x \in admins : x.auth_id = user.id /\ x.is_active = TRUE})
             IN  IF r.error THEN Null ELSE r.data

getCurrentUserRecord(a) ==
    LET user == getCurrentUser(a)
    IN  IF user = Null THEN Null
        ELSE LET userData == single({x \in users : x.auth_id = user.id}).data
                 adminData == single({x \in admins : x.auth_id = user.id}).data
             IN  IF userData # Null THEN userData
                 ELSE IF adminData # Null THEN adminData
                 ELSE Null

\* calls issued by isAdmin and by getCurrentUserRecord, for the trace in net
isAdminCalls(a) ==
    IF a = NoAuth THEN <<"auth.getUser">> ELSE <<"auth.getUser", "admins.select">>

getCurrentUserRecordCalls(a) ==
    IF a = NoAuth THEN <<"auth.getUser">>
    ELSE IF \E x \in users : x.auth_id = a THEN <<"auth.getUser", "users.select">>
    ELSE <<"auth.getUser", "users.select", "admins.select">>

\* the storage path `${userRecord.id}/${Date.now()}_${file.name}`
StoragePath(ownerId, t, name) == [owner |-> ownerId, ts |-> t, name |-> name]

\* -------------------------------------------------------------- control

\* Date.now() and new Date() as read by the operation that is being started
Now == opCount + 1

CanStart(c) == pc[c] = "idle" /\ opCount < MaxOps

\* the operation of client c returns r to its caller
Return(c, l, r) ==
    /\ pc' = [pc EXCEPT ![c] = "done"]
    /\ loc' = [loc EXCEPT ![c] = l]
    /\ result' = [result EXCEPT ![c] = r]

\* the operation of client c suspends at its next await
Goto(c, label, l) ==
    /\ pc' = [pc EXCEPT ![c] = label]
    /\ loc' = [loc EXCEPT ![c] = l]
    /\ UNCHANGED result

\* variant: the failure reaches the caller as a rejection
Failure_rejected(msg) == [settled |-> "rejected", success |-> FALSE, error |-> msg]

Failure(msg) == [success |-> FALSE, error |-> msg]

Init ==
    /\ papers = {}
    /\ bucket = {}
    /\ activity_logs = <<>>
    /\ email_notifications = <<>>
    /\ nextId = 1
    /\ opCount = 0
    /\ pc = [c \in Clients |-> "idle"]
    /\ loc = [c \in Clients |-> Null]
    /\ result = [c \in Clients |-> Null]
    /\ session = NoAuth
    /\ localStorage = [current_user |-> Null, currentUser |-> Null]
    /\ location = [c \in Clients |-> "page"]
    /\ timer = [c \in Clients |-> {}]
    /\ auth_users = {}
    /\ registrations = {}
    /\ payments = {}

\* the page handler that awaited the operation reads the result and the tab
\* is free for the next operation
handleResult(c) ==
    /\ pc[c] = "done"
    /\ pc' = [pc EXCEPT ![c] = "idle"]
    /\ loc' = [loc EXCEPT ![c] = Null]
    /\ result' = [result EXCEPT ![c] = Null]
    /\ UNCHANGED <<papers, bucket, activity_logs, email_notifications, nextId, opCount, accountVars>>

\* ----------------------------------------------------- paper submission

uploadPaper(c, a, file) ==
    LET user == getCurrentUser(a)
        userRecord == getCurrentUserRecord(a)
        reads == <<"auth.getUser">> \o
                 (IF user = Null THEN <<>> ELSE getCurrentUserRecordCalls(a))
        l == [op |-> "uploadPaper", caller |-> a, file |-> file, net |-> reads]
        Throw(msg) == Return(c, l, Failure(msg)) /\ UNCHANGED bucket
    IN  /\ CanStart(c)
        /\ opCount' = opCount + 1
        /\ IF user = Null
           THEN Throw("Please log in to submit a paper")
           ELSE IF userRecord = Null
           THEN Throw("User record not found. Please complete registration first.")
           ELSE IF ~isValidFileType(file.name, AllowedTypes)
           THEN Throw("Invalid file type. Please upload PDF, DOC, or DOCX files only.")
           ELSE IF ~isValidFileSize(file.size, MaxSizeMB)
           THEN Throw("File size exceeds 10 MB limit")
           ELSE LET fileName == StoragePath(userRecord.id, Now, file.name)
                    calls == Append(reads, "storage.upload")
                IN  \E ok \in BOOLEAN :
                        IF ok /\ fileName \notin bucket
                        THEN /\ bucket' = bucket \cup {fileName}
                             /\ Goto(c, "upload_insert",
                                     [op |-> "uploadPaper", caller |-> a, file |-> file,
                                      userRecord |-> userRecord, fileName |-> fileName,
                                      net |-> calls])
                        ELSE /\ Return(c, [l EXCEPT !.net = calls],
                                       Failure("storage upload failed"))
                             /\ UNCHANGED bucket
        /\ UNCHANGED <<papers, activity_logs, email_notifications, nextId, accountVars>>

\* variant: the row keeps the public URL instead of the storage path
uploadPaper_insert_public_url(c) ==
    /\ pc[c] = "upload_insert"
    /\ LET l == [loc[c] EXCEPT !.net = Append(@, "papers.insert")]
           row == [id |-> nextId,
                   user_id |-> l.userRecord.id,
                   file_name |-> l.file.name,
                   file_url |-> [publicUrl |-> l.fileName],
                   file_size_bytes |-> l.file.size,
                   status |-> "pending",
                   reviewed_by |-> "",
                   reviewer_name |-> "",
                   review_date |-> 0,
                   review_comments |-> ""]
       IN  \E ok \in BOOLEAN :
               IF ok
               THEN /\ papers' = papers \cup {row}
                    /\ nextId' = nextId + 1
                    /\ Return(c, l, [success |-> TRUE, data |-> row])
               ELSE /\ Return(c, l, Failure("papers insert failed"))
                    /\ UNCHANGED <<papers, nextId>>
    /\ UNCHANGED <<bucket, activity_logs, email_notifications, opCount, accountVars>>

uploadPaper_insert(c) ==
    /\ pc[c] = "upload_insert"
    /\ LET l == [loc[c] EXCEPT !.net = Append(@, "papers.insert")]
           row == [id |-> nextId,
                   user_id |-> l.userRecord.id,
                   file_name |-> l.file.name,
                   file_url |-> l.fileName,
                   file_size_bytes |-> l.file.size,
                   status |-> "pending",
                   reviewed_by |-> "",
                   reviewer_name |-> "",
                   review_date |-> 0,
                   review_comments |-> ""]
       IN  \E ok \in BOOLEAN :
               IF ok
               THEN /\ papers' = papers \cup {row}
                    /\ nextId' = nextId + 1
                    /\ Return(c, l, [success |-> TRUE, data |-> row])
               ELSE /\ Return(c, l, Failure("papers insert failed"))
                    /\ UNCHANGED <<papers, nextId>>
    /\ UNCHANGED <<bucket, activity_logs, email_notifications, opCount, accountVars>>

getUserPapers(c, a) ==
    LET user == getCurrentUser(a)
        userRecord == getCurrentUserRecord(a)
        reads == <<"auth.getUser">> \o
                 (IF user = Null THEN <<>> ELSE getCurrentUserRecordCalls(a))
        l == [op |-> "getUserPapers", caller |-> a, net |-> reads]
    IN  /\ CanStart(c)
        /\ opCount' = opCount + 1
        /\ IF user = Null \/ userRecord = Null
           THEN Return(c, l, {})
           ELSE Return(c, [l EXCEPT !.net = Append(reads, "papers.select")],
                       {p \in papers : p.user_id = userRecord.id})
        /\ UNCHANGED <<papers, bucket, activity_logs, email_notifications, nextId, accountVars>>

\* variant: the guard also lets a paper under review through
isPending_or_under_review(paper) == paper.status \in {"pending", "under_review"}

\* the guard of deletePaper: only a pending paper goes on to deletion
isPending(paper) == paper.status = "pending"

deletePaper(c, a, paperId) ==
    LET fetch == single({p \in papers : p.id = paperId})
        l == [op |-> "deletePaper", caller |-> a, paperId |-> paperId,
              net |-> <<"papers.select">>]
    IN  /\ CanStart(c)
        /\ opCount' = opCount + 1
        /\ IF fetch.error
           THEN Return(c, l, Failure("paper not found"))
           ELSE IF ~isPending(fetch.data)
           THEN Return(c, l,
                       Failure("Cannot delete paper that is under review or has been reviewed"))
           ELSE Goto(c, "delete_storage",
                     [op |-> "deletePaper", caller |-> a, paperId |-> paperId,
                      paper |-> fetch.data, storageError |-> FALSE, net |-> l.net])
        /\ UNCHANGED <<papers, bucket, activity_logs, email_notifications, nextId, accountVars>>

\* variant: a failed storage removal is thrown instead of logged
deletePaper_storage_throws(c) ==
    /\ pc[c] = "delete_storage"
    /\ LET l == [loc[c] EXCEPT !.net = Append(@, "storage.remove")]
       IN  \E ok \in BOOLEAN :
               IF ok
               THEN /\ bucket' = bucket \ {l.paper.file_url}
                    /\ Goto(c, "delete_record", l)
               ELSE /\ UNCHANGED bucket
                    /\ Return(c, [l EXCEPT !.storageError = TRUE],
                              Failure("storage remove failed"))
    /\ UNCHANGED <<papers, activity_logs, email_notifications, nextId, opCount, accountVars>>

deletePaper_storage(c) ==
    /\ pc[c] = "delete_storage"
    /\ LET l == loc[c]
       IN  \E ok \in BOOLEAN :
               /\ bucket' = IF ok THEN bucket \ {l.paper.file_url} ELSE bucket
               /\ Goto(c, "delete_record",
                       [l EXCEPT !.storageError = ~ok,
                                 !.net = Append(l.net, "storage.remove")])
    /\ UNCHANGED <<papers, activity_logs, email_notifications, nextId, opCount, accountVars>>

\* variant: the record is marked deleted instead of being removed
deletePaper_record_soft(c) ==
    /\ pc[c] = "delete_record"
    /\ LET l == [loc[c] EXCEPT !.net = Append(@, "papers.update")]
       IN  \E ok \in BOOLEAN :
               IF ok
               THEN /\ papers' = {IF p.id = l.paperId THEN [p EXCEPT !.status = "deleted"] ELSE p :
                                  p \in papers}
                    /\ Return(c, l, [success |-> TRUE])
               ELSE /\ UNCHANGED papers
                    /\ Return(c, l, Failure("papers delete failed"))
    /\ UNCHANGED <<bucket, activity_logs, email_notifications, nextId, opCount, accountVars>>

deletePaper_record(c) ==
    /\ pc[c] = "delete_record"
    /\ LET l == [loc[c] EXCEPT !.net = Append(@, "papers.delete")]
       IN  \E ok \in BOOLEAN :
               IF ok
               THEN /\ papers' = {p \in papers : p.id # l.paperId}
                    /\ Return(c, l, [success |-> TRUE])
               ELSE /\ UNCHANGED papers
                    /\ Return(c, l, Failure("papers delete failed"))
    /\ UNCHANGED <<bucket, activity_logs, email_notifications, nextId, opCount, accountVars>>

\* ------------------------------------------------------------ admin panel

verifyAdminAccess(c, a) ==
    LET admin == isAdmin(a)
        l == [op |-> "verifyAdminAccess", caller |-> a, admin |-> admin,
              redirect |-> IF admin = Null THEN "/index.html" ELSE "",
              net |-> isAdminCalls(a)]
    IN  /\ CanStart(c)
        /\ opCount' = opCount + 1
        /\ Return(c, l, admin # Null)
        /\ UNCHANGED <<papers, bucket, activity_logs, email_notifications, nextId, accountVars>>

\* variant: the join loses its key and yields some users row
joinUsers_unkeyed(paper) == CHOOSE u \in users : TRUE

\* the users:user_id (...) join of the select that follows the update
joinUsers(paper) == single({u \in users : u.id = paper.user_id}).data

\* variant: accepted and rejected are terminal, the update refuses to leave them
updatePaperStatus_terminal(c, a, paperId, newStatus, comments) ==
    LET admin == isAdmin(a)
        rows == {p \in papers : p.id = paperId /\ p.status \notin {"accepted", "rejected"}}
        l == [op |-> "updatePaperStatus", caller |-> a, paperId |-> paperId,
              newStatus |-> newStatus, comments |-> comments, net |-> isAdminCalls(a)]
        calls == Append(isAdminCalls(a), "papers.update")
    IN  /\ CanStart(c)
        /\ opCount' = opCount + 1
        /\ IF admin = Null
           THEN /\ Return(c, l, Failure("Unauthorized: Admin access required"))
                /\ UNCHANGED papers
           ELSE \E ok \in BOOLEAN :
                    IF ok /\ rows # {}
                    THEN LET old == CHOOSE p \in rows : TRUE
                             new == [old EXCEPT !.status = newStatus,
                                                !.reviewed_by = admin.id,
                                                !.reviewer_name = admin.full_name,
                                                !.review_date = Now,
                                                !.review_comments = comments]
                         IN  /\ papers' = (papers \ {old}) \cup {new}
                             /\ Goto(c, "send_email",
                                     [op |-> "updatePaperStatus", caller |-> a,
                                      paperId |-> paperId, newStatus |-> newStatus,
                                      comments |-> comments, data |-> new,
                                      users |-> joinUsers(new),
                                      notified |-> "no", logged |-> "no", net |-> calls])
                    ELSE /\ Return(c, [l EXCEPT !.net = calls], Failure("papers update failed"))
                         /\ UNCHANGED papers
        /\ UNCHANGED <<bucket, activity_logs, email_notifications, nextId, accountVars>>

\* variant: a refused attempt is recorded in the activity log
updatePaperStatus_audits_refusal(c, a, paperId, newStatus, comments) ==
    LET admin == isAdmin(a)
        rows == {p \in papers : p.id = paperId}
        l == [op |-> "updatePaperStatus", caller |-> a, paperId |-> paperId,
              newStatus |-> newStatus, comments |-> comments, net |-> isAdminCalls(a)]
        calls == Append(isAdminCalls(a), "papers.update")
    IN  /\ CanStart(c)
        /\ opCount' = opCount + 1
        /\ IF admin = Null
           THEN /\ activity_logs' =
                       Append(activity_logs,
                              [admin_id |-> "", actor_email |-> "", actor_role |-> "",
                               action_type |-> "paper_status_update_refused",
                               target_table |-> "papers", target_id |-> paperId,
                               new_data |-> [paper_id |-> paperId, new_status |-> newStatus,
                                             comments |-> comments]])
                /\ Return(c, [l EXCEPT !.net = Append(@, "activity_logs.insert")],
                          Failure("Unauthorized: Admin access required"))
                /\ UNCHANGED papers
           ELSE /\ UNCHANGED activity_logs
                /\ \E ok \in BOOLEAN :
                       IF ok /\ rows # {}
                       THEN LET old == CHOOSE p \in rows : TRUE
                                new == [old EXCEPT !.status = newStatus,
                                                   !.reviewed_by = admin.id,
                                                   !.reviewer_name = admin.full_name,
                                                   !.review_date = Now,
                                                   !.review_comments = comments]
                            IN  /\ papers' = (papers \ {old}) \cup {new}
                                /\ Goto(c, "send_email",
                                        [op |-> "updatePaperStatus", caller |-> a,
                                         paperId |-> paperId, newStatus |-> newStatus,
                                         comments |-> comments, data |-> new,
                                         users |-> joinUsers(new),
                                         notified |-> "no", logged |-> "no", net |-> calls])
                       ELSE /\ Return(c, [l EXCEPT !.net = calls],
                                      Failure("papers update failed"))
                            /\ UNCHANGED papers
        /\ UNCHANGED <<bucket, email_notifications, nextId, accountVars>>

updatePaperStatus(c, a, paperId, newStatus, comments) ==
    LET admin == isAdmin(a)
        rows == {p \in papers : p.id = paperId}
        l == [op |-> "updatePaperStatus", caller |-> a, paperId |-> paperId,
              newStatus |-> newStatus, comments |-> comments, net |-> isAdminCalls(a)]
        calls == Append(isAdminCalls(a), "papers.update")
    IN  /\ CanStart(c)
        /\ opCount' = opCount + 1
        /\ IF admin = Null
           THEN /\ Return(c, l, Failure("Unauthorized: Admin access required"))
                /\ UNCHANGED papers
           ELSE \E ok \in BOOLEAN :
                    IF ok /\ rows # {}
                    THEN LET old == CHOOSE p \in rows : TRUE
                             new == [old EXCEPT !.status = newStatus,
                                                !.reviewed_by = admin.id,
                                                !.reviewer_name = admin.full_name,
                                                !.review_date = Now,
                                                !.review_comments = comments]
                         IN  /\ papers' = (papers \ {old}) \cup {new}
                             /\ Goto(c, "send_email",
                                     [op |-> "updatePaperStatus", caller |-> a,
                                      paperId |-> paperId, newStatus |-> newStatus,
                                      comments |-> comments, data |-> new,
                                      users |-> joinUsers(new),
                                      notified |-> "no", logged |-> "no", net |-> calls])
                    ELSE /\ Return(c, [l EXCEPT !.net = calls], Failure("papers update failed"))
                         /\ UNCHANGED papers
        /\ UNCHANGED <<bucket, activity_logs, email_notifications, nextId, accountVars>>

\* sendStatusUpdateEmail and the sendUserNotification it calls
sendStatusUpdateEmail(c) ==
    /\ pc[c] = "send_email"
    /\ LET l == loc[c]
           user == l.users
       IN  IF user = Null
           THEN /\ Goto(c, "log_activity", [l EXCEPT !.notified = "skipped"])
                /\ UNCHANGED email_notifications
           ELSE \E ok \in BOOLEAN :
                    /\ email_notifications' =
                           IF ok
                           THEN Append(email_notifications,
                                       [recipient_email |-> user.email,
                                        recipient_name |-> user.full_name,
                                        type |-> "paper_status_update",
                                        status |-> "opened_client"])
                           ELSE email_notifications
                    /\ Goto(c, "log_activity",
                            [l EXCEPT !.notified = IF ok THEN "written" ELSE "refused",
                                      !.net = l.net \o <<"email_notifications.insert", "window.open">>])
    /\ UNCHANGED <<papers, bucket, activity_logs, nextId, opCount, accountVars>>

\* variant: a refused audit insert is thrown to the operation that awaited it
logAdminActivity_blocking(c) ==
    /\ pc[c] = "log_activity"
    /\ LET l == loc[c]
           admin == isAdmin(l.caller)
           isUpdate == l.op = "updatePaperStatus"
           actionType == IF isUpdate THEN "paper_status_update" ELSE "delete_all_papers"
           actionData == IF isUpdate
                         THEN [paper_id |-> l.paperId, new_status |-> l.newStatus,
                               comments |-> l.comments]
                         ELSE [count |-> l.count]
           value == IF isUpdate
                    THEN [success |-> TRUE, data |-> l.data]
                    ELSE [success |-> TRUE, count |-> l.count]
           calls == l.net \o isAdminCalls(l.caller) \o <<"activity_logs.insert">>
       IN  IF admin = Null
           THEN /\ UNCHANGED activity_logs
                /\ Return(c, [l EXCEPT !.logged = "skipped",
                                       !.net = l.net \o isAdminCalls(l.caller)], value)
           ELSE \E ok \in BOOLEAN :
                    IF ok
                    THEN /\ activity_logs' =
                                Append(activity_logs,
                                       [admin_id |-> admin.id,
                                        actor_email |-> admin.email,
                                        actor_role |-> admin.role,
                                        action_type |-> actionType,
                                        target_table |-> "papers",
                                        target_id |-> IF isUpdate THEN l.paperId ELSE 0,
                                        new_data |-> actionData])
                         /\ Return(c, [l EXCEPT !.logged = "written", !.net = calls], value)
                    ELSE /\ UNCHANGED activity_logs
                         /\ Return(c, [l EXCEPT !.logged = "refused", !.net = calls],
                                   Failure("activity_logs insert failed"))
    /\ UNCHANGED <<papers, bucket, email_notifications, nextId, opCount, accountVars>>

\* variant: the audit table keeps only the latest entry
logAdminActivity_latest_only(c) ==
    /\ pc[c] = "log_activity"
    /\ LET l == loc[c]
           admin == isAdmin(l.caller)
           isUpdate == l.op = "updatePaperStatus"
           actionType == IF isUpdate THEN "paper_status_update" ELSE "delete_all_papers"
           actionData == IF isUpdate
                         THEN [paper_id |-> l.paperId, new_status |-> l.newStatus,
                               comments |-> l.comments]
                         ELSE [count |-> l.count]
           value == IF isUpdate
                    THEN [success |-> TRUE, data |-> l.data]
                    ELSE [success |-> TRUE, count |-> l.count]
       IN  IF admin = Null
           THEN /\ UNCHANGED activity_logs
                /\ Return(c, [l EXCEPT !.logged = "skipped",
                                       !.net = l.net \o isAdminCalls(l.caller)], value)
           ELSE \E ok \in BOOLEAN :
                    /\ activity_logs' =
                           IF ok
                           THEN << [admin_id |-> admin.id,
                                    actor_email |-> admin.email,
                                    actor_role |-> admin.role,
                                    action_type |-> actionType,
                                    target_table |-> "papers",
                                    target_id |-> IF isUpdate THEN l.paperId ELSE 0,
                                    new_data |-> actionData] >>
                           ELSE activity_logs
                    /\ Return(c, [l EXCEPT !.logged = IF ok THEN "written" ELSE "refused",
                                           !.net = l.net \o isAdminCalls(l.caller)
                                                   \o <<"activity_logs.insert">>],
                              value)
    /\ UNCHANGED <<papers, bucket, email_notifications, nextId, opCount, accountVars>>

\* logAdminActivity and the return of the operation that awaited it
logAdminActivity(c) ==
    /\ pc[c] = "log_activity"
    /\ LET l == loc[c]
           admin == isAdmin(l.caller)
           isUpdate == l.op = "updatePaperStatus"
           actionType == IF isUpdate THEN "paper_status_update" ELSE "delete_all_papers"
           actionData == IF isUpdate
                         THEN [paper_id |-> l.paperId, new_status |-> l.newStatus,
                               comments |-> l.comments]
                         ELSE [count |-> l.count]
           value == IF isUpdate
                    THEN [success |-> TRUE, data |-> l.data]
                    ELSE [success |-> TRUE, count |-> l.count]
       IN  IF admin = Null
           THEN /\ UNCHANGED activity_logs
                /\ Return(c, [l EXCEPT !.logged = "skipped",
                                       !.net = l.net \o isAdminCalls(l.caller)], value)
           ELSE \E ok \in BOOLEAN :
                    /\ activity_logs' =
                           IF ok
                           THEN Append(activity_logs,
                                       [admin_id |-> admin.id,
                                        actor_email |-> admin.email,
                                        actor_role |-> admin.role,
                                        action_type |-> actionType,
                                        target_table |-> "papers",
                                        target_id |-> IF isUpdate THEN l.paperId ELSE 0,
                                        new_data |-> actionData])
                           ELSE activity_logs
                    /\ Return(c, [l EXCEPT !.logged = IF ok THEN "written" ELSE "refused",
                                           !.net = l.net \o isAdminCalls(l.caller)
                                                   \o <<"activity_logs.insert">>],
                              value)
    /\ UNCHANGED <<papers, bucket, email_notifications, nextId, opCount, accountVars>>

\* variant: the admin delete keeps the owner's pending-only restriction
adminDeletePaper_pending_only(c, a, paperId) ==
    LET admin == isAdmin(a)
        fetch == single({p \in papers : p.id = paperId})
        l == [op |-> "adminDeletePaper", caller |-> a, paperId |-> paperId,
              net |-> isAdminCalls(a)]
        calls == Append(isAdminCalls(a), "papers.select")
    IN  /\ CanStart(c)
        /\ opCount' = opCount + 1
        /\ IF admin = Null
           THEN Return(c, l, Failure("Unauthorized: Admin access required"))
           ELSE IF fetch.error
           THEN Return(c, [l EXCEPT !.net = calls], Failure("paper not found"))
           ELSE IF ~isPending(fetch.data)
           THEN Return(c, [l EXCEPT !.net = calls],
                       Failure("Cannot delete paper that is under review or has been reviewed"))
           ELSE Goto(c, "admin_delete_storage",
                     [op |-> "adminDeletePaper", caller |-> a, paperId |-> paperId,
                      paper |-> fetch.data, net |-> calls])
        /\ UNCHANGED <<papers, bucket, activity_logs, email_notifications, nextId, accountVars>>

adminDeletePaper(c, a, paperId) ==
    LET admin == isAdmin(a)
        fetch == single({p \in papers : p.id = paperId})
        l == [op |-> "adminDeletePaper", caller |-> a, paperId |-> paperId,
              net |-> isAdminCalls(a)]
        calls == Append(isAdminCalls(a), "papers.select")
    IN  /\ CanStart(c)
        /\ opCount' = opCount + 1
        /\ IF admin = Null
           THEN Return(c, l, Failure("Unauthorized: Admin access required"))
           ELSE IF fetch.error
           THEN Return(c, [l EXCEPT !.net = calls], Failure("paper not found"))
           ELSE Goto(c, "admin_delete_storage",
                     [op |-> "adminDeletePaper", caller |-> a, paperId |-> paperId,
                      paper |-> fetch.data, net |-> calls])
        /\ UNCHANGED <<papers, bucket, activity_logs, email_notifications, nextId, accountVars>>

adminDeletePaper_storage(c) ==
    /\ pc[c] = "admin_delete_storage"
    /\ LET l == loc[c]
       IN  \E ok \in BOOLEAN :
               /\ bucket' = IF ok THEN bucket \ {l.paper.file_url} ELSE bucket
               /\ Goto(c, "admin_delete_record",
                       [l EXCEPT !.net = Append(l.net, "storage.remove")])
    /\ UNCHANGED <<papers, activity_logs, email_notifications, nextId, opCount, accountVars>>

adminDeletePaper_record(c) ==
    /\ pc[c] = "admin_delete_record"
    /\ LET l == [loc[c] EXCEPT !.net = Append(@, "papers.delete")]
       IN  \E ok \in BOOLEAN :
               IF ok
               THEN /\ papers' = {p \in papers : p.id # l.paperId}
                    /\ Return(c, l, [success |-> TRUE])
               ELSE /\ UNCHANGED papers
                    /\ Return(c, l, Failure("papers delete failed"))
    /\ UNCHANGED <<bucket, activity_logs, email_notifications, nextId, opCount, accountVars>>

deleteAllPapers(c, a) ==
    LET admin == isAdmin(a)
        l == [op |-> "deleteAllPapers", caller |-> a, net |-> isAdminCalls(a)]
    IN  /\ CanStart(c)
        /\ opCount' = opCount + 1
        /\ IF admin = Null
           THEN Return(c, l, Failure("Unauthorized: Admin access required"))
           ELSE Goto(c, IF Cardinality(papers) > 0 THEN "delete_all_storage"
                        ELSE "delete_all_records",
                     [op |-> "deleteAllPapers", caller |-> a,
                      fileUrls |-> {p.file_url : p \in papers},
                      count |-> Cardinality(papers), logged |-> "no",
                      net |-> Append(isAdminCalls(a), "papers.select")])
        /\ UNCHANGED <<papers, bucket, activity_logs, email_notifications, nextId, accountVars>>

deleteAllPapers_storage(c) ==
    /\ pc[c] = "delete_all_storage"
    /\ LET l == loc[c]
       IN  \E ok \in BOOLEAN :
               /\ bucket' = IF ok THEN bucket \ l.fileUrls ELSE bucket
               /\ Goto(c, "delete_all_records",
                       [l EXCEPT !.net = Append(l.net, "storage.remove")])
    /\ UNCHANGED <<papers, activity_logs, email_notifications, nextId, opCount, accountVars>>

\* variant: the bulk delete is filtered to pending papers
deleteAllPapers_records_pending(c) ==
    /\ pc[c] = "delete_all_records"
    /\ LET l == [loc[c] EXCEPT !.net = Append(@, "papers.delete")]
       IN  \E ok \in BOOLEAN :
               IF ok
               THEN /\ papers' = {p \in papers : p.status # "pending"}
                    /\ Goto(c, "log_activity", l)
               ELSE /\ UNCHANGED papers
                    /\ Return(c, l, Failure("papers delete failed"))
    /\ UNCHANGED <<bucket, activity_logs, email_notifications, nextId, opCount, accountVars>>

deleteAllPapers_records(c) ==
    /\ pc[c] = "delete_all_records"
    /\ LET l == [loc[c] EXCEPT !.net = Append(@, "papers.delete")]
       IN  \E ok \in BOOLEAN :
               IF ok
               THEN /\ papers' = {}
                    /\ Goto(c, "log_activity", l)
               ELSE /\ UNCHANGED papers
                    /\ Return(c, l, Failure("papers delete failed"))
    /\ UNCHANGED <<bucket, activity_logs, email_notifications, nextId, opCount, accountVars>>

\* ------------------------------------------------- sessions and guards

\* an assignment to window.location.href: the tab leaves its page, and the
\* timers of the page it leaves never run
navigate(c, href) ==
    /\ location' = [location EXCEPT ![c] = href]
    /\ timer' = [timer EXCEPT ![c] = {}]

\* login up to the sign-in and the save of current_user; a wrong password or
\* a refusal of the auth service is the error of signInWithPassword
login(c, email, ok) ==
    LET l == [op |-> "login", email |-> email, net |-> <<"auth.signInWithPassword">>]
    IN  /\ CanStart(c)
        /\ opCount' = opCount + 1
        /\ IF ok
           THEN /\ session' = email
                /\ localStorage' = [localStorage EXCEPT
                                        !.current_user = [id |-> email, email |-> email]]
                /\ Goto(c, "login_roles", l)
           ELSE /\ Return(c, l, Failure("Invalid login credentials"))
                /\ UNCHANGED <<session, localStorage>>
        /\ UNCHANGED <<location, timer, auth_users, registrations, payments, paperVars>>

\* the rest of login: isAdmin, getCurrentUserRecord and the result
login_roles(c) ==
    /\ pc[c] = "login_roles"
    /\ LET adminCheck == isAdmin(session)
           userRecord == getCurrentUserRecord(session)
           l == [loc[c] EXCEPT !.net = @ \o isAdminCalls(session)
                                         \o getCurrentUserRecordCalls(session)]
       IN  Return(c, l, [success |-> TRUE, isAdmin |-> adminCheck # Null,
                         user |-> userRecord])
    /\ UNCHANGED <<opCount, accountVars, paperVars>>

logout(c) ==
    LET l == [op |-> "logout", net |-> <<"auth.signOut">>]
    IN  /\ CanStart(c)
        /\ opCount' = opCount + 1
        /\ \E ok \in BOOLEAN :
               IF ok
               THEN /\ session' = NoAuth
                    /\ localStorage' = [localStorage EXCEPT !.current_user = Null]
                    /\ navigate(c, "/login.html")
                    /\ Return(c, l, [success |-> TRUE])
               ELSE /\ Return(c, l, Failure("signOut failed"))
                    /\ UNCHANGED <<session, localStorage, location, timer>>
        /\ UNCHANGED <<auth_users, registrations, payments, paperVars>>

getCurrentSession == IF session = NoAuth THEN Null ELSE [user |-> [id |-> session]]

\* auth.requireAuth as exported: the guard of the client module
requireAuth(c) ==
    LET l == [op |-> "requireAuth", net |-> <<"auth.getSession">>]
    IN  /\ CanStart(c)
        /\ opCount' = opCount + 1
        /\ IF getCurrentSession = Null
           THEN /\ navigate(c, "login.html")
                /\ Return(c, l, FALSE)
           ELSE /\ UNCHANGED <<location, timer>>
                /\ Return(c, l, TRUE)
        /\ UNCHANGED <<session, localStorage, auth_users, registrations, payments,
                       paperVars>>

requireAdmin(c) ==
    LET admin == isAdmin(session)
        l == [op |-> "requireAdmin", net |-> isAdminCalls(session)]
    IN  /\ CanStart(c)
        /\ opCount' = opCount + 1
        /\ IF admin = Null
           THEN /\ timer' = [timer EXCEPT ![c] = @ \cup {[href |-> "/index.html", delay |-> 1500, at |-> Now]}]
                /\ Return(c, l, FALSE)
           ELSE /\ UNCHANGED timer
                /\ Return(c, l, TRUE)
        /\ UNCHANGED <<session, localStorage, location, auth_users, registrations, payments,
                       paperVars>>

\* the callback of a setTimeout runs: the scheduled redirect happens
timerFires(c) ==
    /\ \E t \in timer[c] : navigate(c, t.href)
    /\ UNCHANGED <<session, localStorage, auth_users, registrations, payments,
                   paperVars, opCount, pc, loc, result>>

\* the page handler that awaited an account operation reads its result
formResult(c) ==
    /\ pc[c] = "done"
    /\ loc[c].op # "submitRegistration"
    /\ pc' = [pc EXCEPT ![c] = "idle"]
    /\ loc' = [loc EXCEPT ![c] = Null]
    /\ result' = [result EXCEPT ![c] = Null]
    /\ UNCHANGED <<opCount, accountVars, paperVars>>

\* ------------------------------------------------ registration, payment

\* String.prototype.startsWith
startsWith(str, prefix) ==
    Len(str) >= Len(prefix) /\ SubSeq(str, 1, Len(prefix)) = prefix

\* variant: the listener test compares for equality instead of the prefix
normalizeCategory_exact(rawCategory) ==
    IF rawCategory = ListenerPrefix THEN ListenerWord
    ELSE IF rawCategory = Scholar THEN Student
    ELSE IF rawCategory = Expert THEN Scientist
    ELSE rawCategory

\* the category normalisation of the submit handler
normalizeCategory(rawCategory) ==
    IF rawCategory # <<>> /\ startsWith(rawCategory, ListenerPrefix) THEN ListenerWord
    ELSE IF rawCategory = Scholar THEN Student
    ELSE IF rawCategory = Expert THEN Scientist
    ELSE rawCategory

validateRegistrationForm(formData) ==
    /\ formData.email # ""
    /\ formData.category # <<>>

\* variant: a missing password skips the account creation instead of failing
submitRegistration_optional_password(c, formData, handler) ==
    LET l == [op |-> "submitRegistration", formData |-> formData, handler |-> handler,
              authUserId |-> "", net |-> <<>>]
    IN  IF formData.password = ""
        THEN /\ Goto(c, "registration_insert", l)
             /\ UNCHANGED auth_users
        ELSE \E ok \in BOOLEAN :
                 IF ok /\ formData.email \notin auth_users
                 THEN /\ auth_users' = auth_users \cup {formData.email}
                      /\ Goto(c, "registration_insert",
                              [l EXCEPT !.authUserId = formData.email,
                                        !.net = <<"auth.signUp">>])
                 ELSE /\ Return(c, [l EXCEPT !.net = <<"auth.signUp">>],
                                Failure("Failed to create account"))
                      /\ UNCHANGED auth_users

\* submitRegistration up to the creation of the auth identity; handler holds
\* the locals of the submit handler that awaits it
submitRegistration(c, formData, handler) ==
    LET l == [op |-> "submitRegistration", formData |-> formData, handler |-> handler,
              authUserId |-> "", net |-> <<>>]
    IN  IF formData.password = ""
        THEN /\ Return(c, l, Failure("Password is required for registration"))
             /\ UNCHANGED auth_users
        ELSE \E ok \in BOOLEAN :
                 IF ok /\ formData.email \notin auth_users
                 THEN /\ auth_users' = auth_users \cup {formData.email}
                      /\ Goto(c, "registration_insert",
                              [l EXCEPT !.authUserId = formData.email,
                                        !.net = <<"auth.signUp">>])
                 ELSE /\ Return(c, [l EXCEPT !.net = <<"auth.signUp">>],
                                Failure("Failed to create account"))
                      /\ UNCHANGED auth_users

submitRegistration_insert(c) ==
    /\ pc[c] = "registration_insert"
    /\ LET l == [loc[c] EXCEPT !.net = Append(@, "users.insert")]
           row == [id |-> Cardinality(registrations) + 1,
                   auth_id |-> l.authUserId,
                   email |-> l.formData.email,
                   category |-> l.formData.category,
                   payment_completed |-> FALSE]
       IN  \E ok \in BOOLEAN :
               IF ok
               THEN /\ registrations' = registrations \cup {row}
                    /\ Return(c, l, [success |-> TRUE, data |-> row])
               ELSE /\ UNCHANGED registrations
                    /\ Return(c, l, Failure("users insert failed"))
    /\ UNCHANGED <<session, localStorage, location, timer, auth_users, payments,
                   paperVars, opCount>>

\* the submit handler of the registration form up to its await
initRegistrationForm(c, rawCategory, email, password) ==
    LET formData == [email |-> email, category |-> normalizeCategory(rawCategory),
                     password |-> password]
    IN  /\ CanStart(c)
        /\ opCount' = opCount + 1
        /\ IF ~validateRegistrationForm(formData)
           THEN /\ Return(c, [op |-> "initRegistrationForm", net |-> <<>>],
                          [aborted |-> TRUE])
                /\ UNCHANGED auth_users
           ELSE submitRegistration(c, formData, [rawCategory |-> rawCategory])
        /\ UNCHANGED <<session, localStorage, location, timer, registrations, payments,
                       paperVars>>

\* the submit handler after submitRegistration has returned
initRegistrationForm_result(c) ==
    /\ pc[c] = "done"
    /\ loc[c].op = "submitRegistration"
    /\ IF result[c].success
       THEN LET registrationData == result[c].data
            IN  /\ localStorage' = [localStorage EXCEPT
                                        !.currentUser = [id |-> registrationData.id,
                                                         auth_id |-> registrationData.auth_id,
                                                         email |-> registrationData.email,
                                                         role |-> "user"]]
                /\ timer' = IF startsWith(loc[c].handler.rawCategory, ListenerWord)
                            THEN timer
                            ELSE [timer EXCEPT ![c] = @ \cup {[href |-> "papersubmission.html",
                                                              delay |-> 4000,
                                                              at |-> Now]}]
       ELSE UNCHANGED <<localStorage, timer>>
    /\ pc' = [pc EXCEPT ![c] = "idle"]
    /\ loc' = [loc EXCEPT ![c] = Null]
    /\ result' = [result EXCEPT ![c] = Null]
    /\ UNCHANGED <<session, location, auth_users, registrations, payments, paperVars, opCount>>

Resolved == [settled |-> "resolved", success |-> TRUE]
Rejected(msg) == [settled |-> "rejected", success |-> FALSE, error |-> msg]

\* processPayment up to the opening of the hosted checkout; what the
\* construction or the opening of the checkout throws is caught and rejected
processPayment(c, userData) ==
    /\ CanStart(c)
    /\ opCount' = opCount + 1
    /\ \E ok \in BOOLEAN :
           IF ok
           THEN Goto(c, "checkout", [op |-> "processPayment", userData |-> userData,
                                     event |-> "", net |-> <<"checkout.open">>])
           ELSE Return(c, [op |-> "processPayment", userData |-> userData,
                           event |-> "catch", net |-> <<"checkout.open">>],
                       Rejected("Razorpay is not defined"))
    /\ UNCHANGED <<accountVars, paperVars>>

\* the checkout's success callback: savePaymentRecord
savePaymentRecord(c) ==
    /\ pc[c] = "checkout"
    /\ LET l == [loc[c] EXCEPT !.event = "handler",
                               !.net = @ \o <<"users.select", "payments.insert">>]
           userId == l.userData.id
           userData == single({u \in registrations : u.id = userId}).data
           row == [id |-> Cardinality(payments) + 1,
                   user_id |-> userId,
                   user_email |-> IF userData = Null THEN "" ELSE userData.email,
                   category |-> l.userData.category,
                   payment_method |-> "razorpay",
                   status |-> "completed"]
       IN  \E ok \in BOOLEAN :
               IF ok
               THEN /\ payments' = payments \cup {row}
                    /\ Goto(c, "payment_status", l)
               ELSE /\ UNCHANGED payments
                    /\ Return(c, l, Rejected("Failed to save payment record"))
    /\ UNCHANGED <<session, localStorage, location, timer, auth_users, registrations,
                   paperVars, opCount>>

\* updateUserPaymentStatus(userData.id, true) and the resolve that follows it
updateUserPaymentStatus(c) ==
    /\ pc[c] = "payment_status"
    /\ LET l == [loc[c] EXCEPT !.net = Append(@, "users.update")]
       IN  \E ok \in BOOLEAN :
               /\ registrations' =
                      IF ok
                      THEN {IF u.id = l.userData.id
                            THEN [u EXCEPT !.payment_completed = TRUE] ELSE u :
                            u \in registrations}
                      ELSE registrations
               /\ Return(c, l, Resolved)
    /\ UNCHANGED <<session, localStorage, location, timer, auth_users, payments,
                   paperVars, opCount>>

\* variant: a dismissed checkout is recorded as a payment row
ondismiss_recorded(c) ==
    /\ pc[c] = "checkout"
    /\ payments' = payments \cup {[id |-> Cardinality(payments) + 1,
                                   user_id |-> loc[c].userData.id,
                                   user_email |-> loc[c].userData.email,
                                   category |-> loc[c].userData.category,
                                   payment_method |-> "razorpay",
                                   status |-> "cancelled"]}
    /\ Return(c, [loc[c] EXCEPT !.event = "dismiss"], Rejected("Payment cancelled by user"))
    /\ UNCHANGED <<opCount, session, localStorage, location, timer, auth_users,
                   registrations, paperVars>>

\* the user dismisses the checkout
ondismiss(c) ==
    /\ pc[c] = "checkout"
    /\ Return(c, [loc[c] EXCEPT !.event = "dismiss"], Rejected("Payment cancelled by user"))
    /\ UNCHANGED <<opCount, accountVars, paperVars>>

\* ids the users table gives the rows of submitRegistration
UserIds == 1..MaxOps

\* adminUpdatePaymentStatus of the admin panel: the users update is issued at
\* once; an update that matches no row is not an error
adminUpdatePaymentStatus(c, userId, completed) ==
    LET l == [op |-> "adminUpdatePaymentStatus", caller |-> session, userId |-> userId,
              completed |-> completed, net |-> <<"users.update">>]
    IN  /\ CanStart(c)
        /\ opCount' = opCount + 1
        /\ \E ok \in BOOLEAN :
               IF ok
               THEN /\ registrations' =
                           {IF u.id = userId
                            THEN [u EXCEPT !.payment_completed = completed] ELSE u :
                            u \in registrations}
                    /\ Return(c, l, [success |-> TRUE])
               ELSE /\ UNCHANGED registrations
                    /\ Return(c, l, Failure("users update failed"))
        /\ UNCHANGED <<session, localStorage, location, timer, auth_users, payments,
                       paperVars>>

\* ------------------------------------------------------- specification

Next ==
    \/ \E c \in Solo : handleResult(c)
    \/ \E c \in Solo, a \in Callers, f \in Files : uploadPaper(c, a, f)
    \/ \E c \in Solo : uploadPaper_insert(c)
    \/ \E c \in Solo, a \in Callers : getUserPapers(c, a)
    \/ \E c \in Solo, a \in Callers, p \in PaperIds : deletePaper(c, a, p)
    \/ \E c \in Solo : deletePaper_storage(c)
    \/ \E c \in Solo : deletePaper_record(c)
    \/ \E c \in Solo, a \in Callers : verifyAdminAccess(c, a)
    \/ \E c \in Solo, a \in Callers, p \in PaperIds, st \in StatusInputs,
          cm \in CommentInputs : updatePaperStatus(c, a, p, st, cm)
    \/ \E c \in Solo : sendStatusUpdateEmail(c)
    \/ \E c \in Solo : logAdminActivity(c)
    \/ \E c \in Solo, a \in Callers, p \in PaperIds : adminDeletePaper(c, a, p)
    \/ \E c \in Solo : adminDeletePaper_storage(c)
    \/ \E c \in Solo : adminDeletePaper_record(c)
    \/ \E c \in Solo, a \in Callers : deleteAllPapers(c, a)
    \/ \E c \in Solo : deleteAllPapers_storage(c)
    \/ \E c \in Solo : deleteAllPapers_records(c)

Spec == Init /\ [][Next]_vars

NextAccount ==
    \/ \E c \in Solo : formResult(c)
    \/ \E c \in Solo, a \in Accounts, ok \in BOOLEAN : login(c, a, ok)
    \/ \E c \in Solo : login_roles(c)
    \/ \E c \in Solo : logout(c)
    \/ \E c \in Solo : requireAuth(c)
    \/ \E c \in Solo : requireAdmin(c)
    \/ \E c \in Solo : timerFires(c)
    \/ \E c \in Solo, raw \in RawCategories, e \in NewEmails, pw \in Passwords :
           initRegistrationForm(c, raw, e, pw)
    \/ \E c \in Solo : submitRegistration_insert(c)
    \/ \E c \in Solo : initRegistrationForm_result(c)
    \/ \E c \in Solo, u \in registrations : processPayment(c, u)
    \/ \E c \in Solo : savePaymentRecord(c)
    \/ \E c \in Solo : updateUserPaymentStatus(c)
    \/ \E c \in Solo : ondismiss(c)
    \/ \E c \in Solo, id \in UserIds, completed \in BOOLEAN :
           adminUpdatePaymentStatus(c, id, completed)

SpecAccount == Init /\ [][NextAccount]_vars

\* the accounts that sign in where the paper operations run under the session
WorkflowAccounts == {"alice", "carol"}

\* every public workflow operation in one tab, each called by the identity
\* of the session as the pages do
NextWorkflow ==
    \/ \E c \in Solo : formResult(c)
    \/ \E c \in Solo, a \in WorkflowAccounts, ok \in BOOLEAN : login(c, a, ok)
    \/ \E c \in Solo : login_roles(c)
    \/ \E c \in Solo : logout(c)
    \/ \E c \in Solo, e \in NewEmails, pw \in Passwords :
           initRegistrationForm(c, Scholar, e, pw)
    \/ \E c \in Solo : submitRegistration_insert(c)
    \/ \E c \in Solo : initRegistrationForm_result(c)
    \/ \E c \in Solo, u \in registrations : processPayment(c, u)
    \/ \E c \in Solo : savePaymentRecord(c)
    \/ \E c \in Solo : updateUserPaymentStatus(c)
    \/ \E c \in Solo : ondismiss(c)
    \/ \E c \in Solo, id \in UserIds, completed \in BOOLEAN :
           adminUpdatePaymentStatus(c, id, completed)
    \/ \E c \in Solo, f \in Files : uploadPaper(c, session, f)
    \/ \E c \in Solo : uploadPaper_insert(c)
    \/ \E c \in Solo, p \in PaperIds : deletePaper(c, session, p)
    \/ \E c \in Solo : deletePaper_storage(c)
    \/ \E c \in Solo : deletePaper_record(c)
    \/ \E c \in Solo, p \in PaperIds, st \in StatusInputs :
           updatePaperStatus(c, session, p, st, "")
    \/ \E c \in Solo : sendStatusUpdateEmail(c)
    \/ \E c \in Solo : logAdminActivity(c)
    \/ \E c \in Solo, p \in PaperIds : adminDeletePaper(c, session, p)
    \/ \E c \in Solo : adminDeletePaper_storage(c)
    \/ \E c \in Solo : adminDeletePaper_record(c)
    \/ \E c \in Solo : deleteAllPapers(c, session)
    \/ \E c \in Solo : deleteAllPapers_storage(c)
    \/ \E c \in Solo : deleteAllPapers_records(c)

SpecWorkflow == Init /\ [][NextWorkflow]_vars

\* the review of one author's submissions by one admin, with every status a
\* target of the update
NextLifecycle ==
    \/ \E c \in Solo : handleResult(c)
    \/ \E c \in Solo, f \in Files : uploadPaper(c, "alice", f)
    \/ \E c \in Solo : uploadPaper_insert(c)
    \/ \E c \in Solo, p \in PaperIds, st \in KnownStatuses :
           updatePaperStatus(c, "root", p, st, "")
    \/ \E c \in Solo : sendStatusUpdateEmail(c)
    \/ \E c \in Solo : logAdminActivity(c)
    \/ \E c \in Solo, p \in PaperIds : adminDeletePaper(c, "root", p)
    \/ \E c \in Solo : adminDeletePaper_storage(c)
    \/ \E c \in Solo : adminDeletePaper_record(c)

SpecLifecycle == Init /\ [][NextLifecycle]_vars

\* the files of Files that pass both checks of uploadPaper
ValidFiles ==
    {f \in Files : isValidFileType(f.name, AllowedTypes) /\ isValidFileSize(f.size, MaxSizeMB)}

\* two tabs at once: the author alice works in c1 and the admin root in c2,
\* and the calls of their operations reach the backend in any order
NextConcurrent ==
    \/ \E c \in Clients : handleResult(c)
    \/ \E f \in ValidFiles : uploadPaper("c1", "alice", f)
    \/ uploadPaper_insert("c1")
    \/ \E p \in PaperIds : deletePaper("c1", "alice", p)
    \/ deletePaper_storage("c1")
    \/ deletePaper_record("c1")
    \/ \E p \in PaperIds, st \in StatusInputs : updatePaperStatus("c2", "root", p, st, "")
    \/ sendStatusUpdateEmail("c2")
    \/ logAdminActivity("c2")
    \/ deleteAllPapers("c2", "root")
    \/ deleteAllPapers_storage("c2")
    \/ deleteAllPapers_records("c2")

SpecConcurrent == Init /\ [][NextConcurrent]_vars

\* ------------------------------------------------------------ properties

\* an Admin row with this auth id and is_active = true exists
ActiveAdmin(a) == \E r \in admins : r.auth_id = a /\ r.is_active

\* this step is the call of operation op in tab c
Starts(c, op) == pc[c] = "idle" /\ pc'[c] # "idle" /\ loc'[c].op = op

\* operation op of tab c has returned and its result is not yet consumed
Finished(c, op) == pc[c] = "done" /\ loc[c].op = op

\* the operation of tab c has issued this backend call
Issued(c, call) == \E i \in 1..Len(loc[c].net) : loc[c].net[i] = call

Stored(paperId) == {p \in papers : p.id = paperId}

InvalidState == Failure("Cannot delete paper that is under review or has been reviewed")
Unauthorized == Failure("Unauthorized: Admin access required")

\* C1: for every stored paper whose status is not pending, a call of
\* deletePaper on it returns the InvalidState failure at once and leaves the
\* paper records and the bucket as they were.
C1_NonPendingDeleteRefused ==
    [][\A c \in Clients : \A p \in papers :
           (Starts(c, "deletePaper") /\ loc'[c].paperId = p.id /\ p.status # "pending")
           => /\ pc'[c] = "done"
              /\ result'[c] = InvalidState
              /\ papers' = papers
              /\ bucket' = bucket]_vars

C1_Witness ==
    \E c \in Clients :
        /\ Finished(c, "deletePaper")
        /\ result[c] = InvalidState
        /\ \E p \in papers : p.id = loc[c].paperId /\ p.status = "accepted"
                             /\ p.file_url \in bucket

\* C2 as stated: once deletePaper has passed the pending check it ends in
\* success with the record removed and, unless the storage removal failed,
\* the storage object removed.
C2_PendingDeleteRemovesBoth ==
    \A c \in Clients :
        (Finished(c, "deletePaper") /\ Issued(c, "storage.remove"))
        => /\ result[c].success
           /\ Stored(loc[c].paperId) = {}
           /\ (loc[c].storageError \/ loc[c].paper.file_url \notin bucket)

\* C2 as amended: a call of deletePaper on a pending paper goes on to the
\* storage removal; whether or not that removal fails, the record deletion is
\* attempted next; success is reported exactly when the record deletion is
\* accepted, and then the record is gone and the storage object is gone
\* unless its removal failed; when the record deletion is refused the
\* operation reports failure and the record stays.
C2_PendingDeleteBestEffort ==
    [][\A c \in Clients :
           /\ \A p \in papers :
                  (Starts(c, "deletePaper") /\ loc'[c].paperId = p.id /\ p.status = "pending")
                  => /\ pc'[c] = "delete_storage"
                     /\ loc'[c].paper = p
                     /\ papers' = papers /\ bucket' = bucket
           /\ (pc[c] = "delete_storage" /\ pc'[c] # "delete_storage")
              => /\ pc'[c] = "delete_record"
                 /\ papers' = papers
                 /\ \/ bucket' = bucket \ {loc[c].paper.file_url} /\ ~loc'[c].storageError
                    \/ bucket' = bucket /\ loc'[c].storageError
           /\ (pc[c] = "delete_record" /\ pc'[c] # "delete_record")
              => /\ pc'[c] = "done"
                 /\ bucket' = bucket
                 /\ IF result'[c].success
                    THEN /\ papers' = papers \ Stored(loc[c].paperId)
                         /\ (loc[c].storageError \/ loc[c].paper.file_url \notin bucket')
                    ELSE papers' = papers]_vars

C2_Witness ==
    \E c \in Clients :
        /\ Finished(c, "deletePaper")
        /\ result[c].success
        /\ loc[c].storageError
        /\ loc[c].paper.file_url \in bucket
        /\ Stored(loc[c].paperId) = {}

\* C3: deletePaper removes a paper only when the caller is its owner: a
\* deletePaper that ended in success was called by the identity whose own
\* record id is the paper's user_id.
C3_DeleteByOwnerOnly ==
    \A c \in Clients :
        (Finished(c, "deletePaper") /\ result[c].success)
        => LET userRecord == getCurrentUserRecord(loc[c].caller)
           IN  userRecord # Null /\ userRecord.id = loc[c].paper.user_id

\* C4: a call of updatePaperStatus by an identity with no active Admin row
\* returns the Unauthorized failure and leaves every paper record (status,
\* reviewer fields, comments) as it was.
C4_UpdateNeedsActiveAdmin ==
    [][\A c \in Clients :
           (Starts(c, "updatePaperStatus") /\ ~ActiveAdmin(loc'[c].caller))
           => /\ pc'[c] = "done"
              /\ result'[c] = Unauthorized
              /\ papers' = papers]_vars

C4_Witness ==
    \E c \in Clients :
        /\ Finished(c, "updatePaperStatus")
        /\ loc[c].caller = "bob"
        /\ result[c] = Unauthorized
        /\ \E p \in Stored(loc[c].paperId) : p.status # loc[c].newStatus

\* the users row of the paper's owner, if there is one
Owner(paper) == {u \in users : u.id = paper.user_id}

\* the row was written by this call of updatePaperStatus
Stamped(paper, l, admin, t) ==
    /\ paper.status = l.newStatus
    /\ paper.reviewed_by = admin.id
    /\ paper.reviewer_name = admin.full_name
    /\ paper.review_date = t
    /\ paper.review_comments = l.comments

\* C5 as stated: every updatePaperStatus that ended in success has left the
\* paper with the new status and the reviewer fields, has written one
\* notification-log entry to the owner and one activity-log entry.
C5_UpdateStampsAndLogsBoth ==
    \A c \in Clients :
        (Finished(c, "updatePaperStatus") /\ result[c].success)
        => /\ \E p \in Stored(loc[c].paperId) :
                  /\ p.status = loc[c].newStatus
                  /\ p.reviewer_name # "" /\ p.reviewed_by # "" /\ p.review_date # 0
           /\ loc[c].notified = "written"
           /\ loc[c].logged = "written"

\* C5 as amended: an updatePaperStatus accepted by the backend leaves the
\* paper with the status passed, reviewed_by and reviewer_name of the calling
\* admin's row, the review date of the call and the comments passed (which
\* may be empty).  It is followed by at most one notification-log entry, of
\* type paper_status_update and addressed to the owner, written only when the
\* owner has a users row and the backend accepts the insert; and by at most
\* one activity-log entry of type paper_status_update for that paper, written
\* only when the backend accepts the insert.  Success is reported either way,
\* and no other step of the operation writes either log.
C5_UpdateStampsAndLogsBestEffort ==
    [][/\ \A c \in Clients :
           /\ (Starts(c, "updatePaperStatus") /\ pc'[c] # "done")
              => /\ pc'[c] = "send_email"
                 /\ \E a \in admins :
                        /\ a.auth_id = loc'[c].caller /\ a.is_active
                        /\ \E p \in papers' :
                               /\ p.id = loc'[c].paperId
                               /\ Stamped(p, loc'[c], a, Now)
                               /\ loc'[c].data = p
                               /\ papers' \ {p} = papers \ Stored(p.id)
           /\ (pc[c] = "send_email" /\ pc'[c] # "send_email")
              => /\ pc'[c] = "log_activity"
                 /\ papers' = papers
                 /\ \/ email_notifications' = email_notifications
                       /\ loc'[c].notified \in {"skipped", "refused"}
                       /\ (loc'[c].notified = "skipped") <=> (Owner(loc[c].data) = {})
                    \/ \E u \in Owner(loc[c].data) :
                           /\ email_notifications' =
                                  Append(email_notifications,
                                         [recipient_email |-> u.email,
                                          recipient_name |-> u.full_name,
                                          type |-> "paper_status_update",
                                          status |-> "opened_client"])
                           /\ loc'[c].notified = "written"
           /\ (pc[c] = "log_activity" /\ pc'[c] # "log_activity"
                   /\ loc[c].op = "updatePaperStatus")
              => /\ pc'[c] = "done"
                 /\ result'[c] = [success |-> TRUE, data |-> loc[c].data]
                 /\ papers' = papers
                 /\ \/ activity_logs' = activity_logs /\ loc'[c].logged # "written"
                    \/ /\ Len(activity_logs') = Len(activity_logs) + 1
                       /\ SubSeq(activity_logs', 1, Len(activity_logs)) = activity_logs
                       /\ LET e == activity_logs'[Len(activity_logs')]
                          IN  /\ e.action_type = "paper_status_update"
                              /\ e.target_table = "papers"
                              /\ e.target_id = loc[c].paperId
                              /\ e.new_data.new_status = loc[c].newStatus
                       /\ loc'[c].logged = "written"
       /\ (\A c \in Clients : pc[c] # "send_email")
          => email_notifications' = email_notifications
       /\ (\A c \in Clients : pc[c] # "log_activity")
          => activity_logs' = activity_logs]_vars

C5_Witness ==
    \E c \in Clients :
        /\ Finished(c, "updatePaperStatus")
        /\ result[c].success
        /\ loc[c].notified = "written"
        /\ loc[c].logged = "written"
        /\ Len(email_notifications) = 1
        /\ Len(activity_logs) = 1
        /\ \E p \in Stored(loc[c].paperId) : p.status = "accepted" /\ p.reviewer_name = "Root"

\* C6: in every reachable state every paper's status is one of pending,
\* under_review, accepted, rejected, revision_required.
C6_StatusOneOfFive == \A p \in papers : p.status \in KnownStatuses

\* C7: a paper that stays stored changes its status only in a step that is a
\* call of updatePaperStatus on that paper by a caller with an active Admin
\* row; no step of uploadPaper, getUserPapers, deletePaper, adminDeletePaper
\* or deleteAllPapers changes the status of a paper that remains.
C7_StatusChangesOnlyByAdminUpdate ==
    [][\A p \in papers : \A q \in papers' :
           (q.id = p.id /\ q.status # p.status)
           => \E c \in Clients :
                  /\ Starts(c, "updatePaperStatus")
                  /\ ActiveAdmin(loc'[c].caller)
                  /\ loc'[c].paperId = p.id]_vars

C7_Witness ==
    \E c \in Clients :
        /\ Finished(c, "adminDeletePaper")
        /\ ~result[c].success
        /\ Issued(c, "papers.delete")
        /\ \E p \in Stored(loc[c].paperId) :
               p.status = "under_review" /\ p.reviewed_by = "A1"

AdminOps == {"updatePaperStatus", "adminDeletePaper", "deleteAllPapers"}

\* C8: isAdmin hands back a non-null Admin record if and only if an Admin row
\* with the caller's auth id and is_active = true exists, and then it is that
\* row; with no identity, no matching row or only a deactivated row it hands
\* back null, and the admin operations that call it refuse exactly then.
C8_IsAdminIffActiveRow ==
    \A c \in Clients :
        /\ Finished(c, "verifyAdminAccess")
           => /\ (loc[c].admin # Null) <=> ActiveAdmin(loc[c].caller)
              /\ (loc[c].admin # Null)
                 => /\ loc[c].admin \in admins
                    /\ loc[c].admin.auth_id = loc[c].caller
                    /\ loc[c].admin.is_active
              /\ result[c] = (loc[c].admin # Null)
        /\ (pc[c] = "done" /\ loc[c].op \in AdminOps)
           => ((result[c] = Unauthorized) <=> ~ActiveAdmin(loc[c].caller))

C8_Witness ==
    \E c \in Clients :
        /\ Finished(c, "verifyAdminAccess")
        /\ loc[c].caller = "bob"
        /\ \E r \in admins : r.auth_id = "bob" /\ ~r.is_active
        /\ loc[c].admin = Null
        /\ result[c] = FALSE

\* the extension of a file name: what follows its last dot, none without a dot
HasDot(name) == \E i \in 1..Len(name) : name[i] = "."
Extension(name) ==
    IF HasDot(name)
    THEN LET dot == CHOOSE i \in 1..Len(name) :
                        name[i] = "." /\ \A j \in (i + 1)..Len(name) : name[j] # "."
         IN  SubSeq(name, dot + 1, Len(name))
    ELSE <<>>
AllowedExtension(name) ==
    toLowerCase(Extension(name)) \in {<<"p", "d", "f">>, <<"d", "o", "c">>, <<"d", "o", "c", "x">>}

\* C9: a call of uploadPaper with a file whose extension (read without regard
\* to case) is not pdf, doc or docx returns a failure result at once, stores
\* no object in the bucket and inserts no paper record.
C9_BadExtensionRefused ==
    [][\A c \in Clients :
           (Starts(c, "uploadPaper") /\ ~AllowedExtension(loc'[c].file.name))
           => /\ pc'[c] = "done"
              /\ ~result'[c].success
              /\ ~\E i \in 1..Len(loc'[c].net) :
                      loc'[c].net[i] \in {"storage.upload", "papers.insert"}
              /\ bucket' = bucket
              /\ papers' = papers]_vars

C9_Witness ==
    \E c \in Clients :
        /\ Finished(c, "uploadPaper")
        /\ loc[c].caller = "alice"
        /\ loc[c].file.name = <<"c", ".", "p", "d", "f", ".", "e", "x", "e">>
        /\ result[c] = Failure("Invalid file type. Please upload PDF, DOC, or DOCX files only.")

TooLarge(file) == file.size > 10 * 1024 * 1024

\* C10 as stated: an uploadPaper with a file larger than 10 MiB ends in
\* failure without having issued any network call.
C10_OversizeFailsBeforeAnyCall ==
    \A c \in Clients :
        (Finished(c, "uploadPaper") /\ TooLarge(loc[c].file))
        => (~result[c].success /\ loc[c].net = <<>>)

\* C10 as amended: an uploadPaper with a file larger than 10 MiB fails
\* before any storage upload or record insert is issued; the identity lookup
\* comes first in every case and the profile query follows it for a signed-in
\* caller, both before the size is looked at.
C10_OversizeFailsBeforeUpload ==
    \A c \in Clients :
        (pc[c] # "idle" /\ loc[c].op = "uploadPaper" /\ TooLarge(loc[c].file))
        => /\ pc[c] = "done"
           /\ ~result[c].success
           /\ ~Issued(c, "storage.upload")
           /\ ~Issued(c, "papers.insert")
           /\ loc[c].net[1] = "auth.getUser"
           /\ (loc[c].caller # NoAuth) => Issued(c, "users.select")

C10_Witness ==
    \E c \in Clients :
        /\ Finished(c, "uploadPaper")
        /\ loc[c].caller = "alice"
        /\ TooLarge(loc[c].file)
        /\ result[c] = Failure("File size exceeds 10 MB limit")
        /\ loc[c].net = <<"auth.getUser", "auth.getUser", "users.select">>

\* the profile of an identity: its users row, else its admins row
Profile(a) ==
    IF \E u \in users : u.auth_id = a
    THEN CHOOSE u \in users : u.auth_id = a
    ELSE CHOOSE r \in admins : r.auth_id = a

\* C11: every paper record created by a successful uploadPaper has status
\* pending, user_id equal to the caller's profile id, file_size_bytes equal to
\* the file's size, and file_url equal to the storage path (owner id, time of
\* the call, original file name) under which the file sits in the bucket.
C11_UploadedRecordFields ==
    \A c \in Clients :
        (Finished(c, "uploadPaper") /\ result[c].success)
        => LET row == result[c].data
               file == loc[c].file
           IN  /\ row \in papers
               /\ row.status = "pending"
               /\ row.user_id = Profile(loc[c].caller).id
               /\ row.file_size_bytes = file.size
               /\ row.file_name = file.name
               /\ row.file_url = [owner |-> Profile(loc[c].caller).id,
                                  ts |-> opCount, name |-> file.name]
               /\ row.file_url \in bucket

C11_Witness ==
    \E c \in Clients :
        /\ Finished(c, "uploadPaper")
        /\ result[c].success
        /\ loc[c].caller = "root"
        /\ result[c].data.user_id = "A1"
        /\ Cardinality(papers) = 2

\* C12 as stated: after a successful deleteAllPapers on N papers none of
\* their storage keys is in the bucket, no paper record remains, one
\* activity-log entry with count = N was appended and the result reports
\* count = N.
C12_DeleteAllClearsAndLogs ==
    \A c \in Clients :
        (Finished(c, "deleteAllPapers") /\ result[c].success /\ loc[c].count > 0)
        => /\ loc[c].fileUrls \cap bucket = {}
           /\ papers = {}
           /\ loc[c].logged = "written"
           /\ result[c].count = loc[c].count

\* C12 as amended: a deleteAllPapers by an active admin on N papers reads the
\* N storage keys, asks the bucket to remove them (skipped when N = 0; the
\* answer is not looked at, so the keys stay when the removal is refused) and
\* then deletes all records; when that deletion is accepted no paper record
\* remains, at most one activity-log entry of type delete_all_papers with
\* count = N is appended (none when the backend refuses the insert) and the
\* result reports success with count = N; when it is refused the operation
\* fails, every record stays and nothing is logged.
C12_DeleteAllBestEffort ==
    [][\A c \in Clients :
           /\ (Starts(c, "deleteAllPapers") /\ ActiveAdmin(loc'[c].caller))
              => /\ pc'[c] = IF papers = {} THEN "delete_all_records" ELSE "delete_all_storage"
                 /\ loc'[c].count = Cardinality(papers)
                 /\ loc'[c].fileUrls = {p.file_url : p \in papers}
                 /\ papers' = papers /\ bucket' = bucket
           /\ (pc[c] = "delete_all_storage" /\ pc'[c] # "delete_all_storage")
              => /\ pc'[c] = "delete_all_records"
                 /\ papers' = papers
                 /\ bucket' \in {bucket, bucket \ loc[c].fileUrls}
           /\ (pc[c] = "delete_all_records" /\ pc'[c] # "delete_all_records")
              => /\ bucket' = bucket
                 /\ activity_logs' = activity_logs
                 /\ \/ pc'[c] = "log_activity" /\ papers' = {}
                    \/ pc'[c] = "done" /\ ~result'[c].success /\ papers' = papers
           /\ (pc[c] = "log_activity" /\ pc'[c] # "log_activity"
                   /\ loc[c].op = "deleteAllPapers")
              => /\ pc'[c] = "done"
                 /\ result'[c] = [success |-> TRUE, count |-> loc[c].count]
                 /\ papers' = papers /\ bucket' = bucket
                 /\ \/ activity_logs' = activity_logs /\ loc'[c].logged # "written"
                    \/ /\ Len(activity_logs') = Len(activity_logs) + 1
                       /\ SubSeq(activity_logs', 1, Len(activity_logs)) = activity_logs
                       /\ LET e == activity_logs'[Len(activity_logs')]
                          IN  /\ e.action_type = "delete_all_papers"
                              /\ e.new_data = [count |-> loc[c].count]
                       /\ loc'[c].logged = "written"]_vars

C12_Witness ==
    \E c \in Clients :
        /\ Finished(c, "deleteAllPapers")
        /\ result[c] = [success |-> TRUE, count |-> 2]
        /\ papers = {}
        /\ loc[c].fileUrls \cap bucket = {}
        /\ loc[c].logged = "written"
        /\ activity_logs[Len(activity_logs)].new_data = [count |-> 2]

\* C13 as stated: an adminDeletePaper by an active admin on a stored paper of
\* any status ends with the storage object and the record removed; called by
\* a non-admin it fails and removes nothing.
C13_AdminDeleteRemovesBoth ==
    \A c \in Clients :
        Finished(c, "adminDeletePaper")
        => IF ActiveAdmin(loc[c].caller)
           THEN Issued(c, "storage.remove")
                => /\ result[c].success
                   /\ Stored(loc[c].paperId) = {}
                   /\ loc[c].paper.file_url \notin bucket
           ELSE result[c] = Unauthorized

\* C13 as amended: an adminDeletePaper by an active admin on a stored paper
\* goes on whatever the paper's status; it asks the bucket to remove the
\* storage object first (the answer is not looked at, so the object stays
\* when the removal is refused) and deletes the record second; it reports
\* success exactly when the record deletion is accepted, and the record is
\* gone then; called by a non-admin it fails as Unauthorized and removes
\* nothing.
C13_AdminDeleteAnyStatus ==
    [][\A c \in Clients :
           /\ (Starts(c, "adminDeletePaper") /\ ~ActiveAdmin(loc'[c].caller))
              => /\ pc'[c] = "done"
                 /\ result'[c] = Unauthorized
                 /\ papers' = papers /\ bucket' = bucket
           /\ \A p \in papers :
                  (Starts(c, "adminDeletePaper") /\ ActiveAdmin(loc'[c].caller)
                       /\ loc'[c].paperId = p.id)
                  => /\ pc'[c] = "admin_delete_storage"
                     /\ loc'[c].paper = p
                     /\ papers' = papers /\ bucket' = bucket
           /\ (pc[c] = "admin_delete_storage" /\ pc'[c] # "admin_delete_storage")
              => /\ pc'[c] = "admin_delete_record"
                 /\ papers' = papers
                 /\ bucket' \in {bucket, bucket \ {loc[c].paper.file_url}}
           /\ (pc[c] = "admin_delete_record" /\ pc'[c] # "admin_delete_record")
              => /\ pc'[c] = "done"
                 /\ bucket' = bucket
                 /\ IF result'[c].success
                    THEN papers' = papers \ Stored(loc[c].paperId)
                    ELSE papers' = papers]_vars

C13_Witness ==
    \E c \in Clients :
        /\ Finished(c, "adminDeletePaper")
        /\ result[c].success
        /\ loc[c].paper.status = "accepted"
        /\ Stored(loc[c].paperId) = {}
        /\ loc[c].paper.file_url \notin bucket

\* C14: a login never resolves an identity as both User and Admin: its result
\* never carries isAdmin = true together with a profile from the users table.
C14_LoginNeverBothRoles ==
    \A c \in Clients :
        (Finished(c, "login") /\ result[c].success)
        => ~(result[c].isAdmin /\ result[c].user \in users)

HasListenerPrefix(raw) ==
    /\ Len(raw) >= Len(ListenerPrefix)
    /\ \A i \in 1..Len(ListenerPrefix) : raw[i] = ListenerPrefix[i]

\* the category the registration is to store for a raw category
StoredCategory(raw) ==
    CASE HasListenerPrefix(raw) -> ListenerWord
      [] raw = Scholar -> Student
      [] raw = Expert -> Scientist
      [] OTHER -> raw

\* C15: the category handed to submitRegistration, and stored in the users
\* row it inserts, is listener for every raw category that starts with
\* listener_, student for scholar, scientist for expert, and the raw value
\* itself for every other raw category.
C15_CategoryNormalized ==
    \A c \in Clients :
        (pc[c] # "idle" /\ loc[c].op = "submitRegistration")
        => /\ loc[c].formData.category = StoredCategory(loc[c].handler.rawCategory)
           /\ (pc[c] = "done" /\ result[c].success)
              => /\ result[c].data \in registrations
                 /\ result[c].data.category = StoredCategory(loc[c].handler.rawCategory)

C15_Witness ==
    \E c \in Clients :
        /\ Finished(c, "submitRegistration")
        /\ result[c].success
        /\ loc[c].handler.rawCategory = ListenerPrefix \o Student
        /\ \E u \in registrations : u.category = ListenerWord
        /\ \E u \in registrations : u.category = Scholar \o <<"s">>

\* C16: when processPayment resolves with success, a payment row with status
\* completed exists for the user and the user's payment_completed flag is
\* true.
C16_ResolvedMeansPaidAndFlagged ==
    \A c \in Clients :
        (Finished(c, "processPayment") /\ result[c].settled = "resolved")
        => /\ \E p \in payments : p.user_id = loc[c].userData.id /\ p.status = "completed"
           /\ \E u \in registrations : u.id = loc[c].userData.id /\ u.payment_completed

\* how often the operation has issued this backend call
Count(net, call) == Cardinality({i \in 1..Len(net) : net[i] = call})

\* C17: when the user dismisses the checkout, processPayment rejects with the
\* cancellation error, no payment row is inserted and no payment_completed
\* flag changes; and no step of processPayment is issued a second time.
C17_DismissRejectsWithoutEffect ==
    [][\A c \in Clients :
           /\ (pc[c] = "checkout" /\ pc'[c] = "done" /\ loc'[c].event = "dismiss")
              => /\ result'[c] = Rejected("Payment cancelled by user")
                 /\ payments' = payments
                 /\ registrations' = registrations
           /\ (pc'[c] # "idle" /\ loc'[c].op = "processPayment")
              => /\ Count(loc'[c].net, "payments.insert") <= 1
                 /\ Count(loc'[c].net, "users.update") <= 1
                 /\ Count(loc'[c].net, "checkout.open") = 1]_vars

C17_Witness ==
    \E c \in Clients :
        /\ Finished(c, "processPayment")
        /\ loc[c].event = "dismiss"
        /\ result[c].settled = "rejected"
        /\ payments = {}
        /\ \E u \in registrations : u.id = loc[c].userData.id /\ ~u.payment_completed

\* C18: submitRegistration without a password returns a failure and creates
\* neither an auth identity nor a users row; with a password it asks for the
\* identity first, and a users row appears only in the insert that follows a
\* created identity, with payment_completed = false and that identity as
\* auth_id.
C18_PasswordThenIdentityThenRow ==
    [][/\ \A c \in Clients :
           /\ (Starts(c, "submitRegistration") /\ loc'[c].formData.password = "")
              => /\ pc'[c] = "done"
                 /\ result'[c] = Failure("Password is required for registration")
                 /\ auth_users' = auth_users
                 /\ registrations' = registrations
           /\ (Starts(c, "submitRegistration") /\ loc'[c].formData.password # "")
              => /\ registrations' = registrations
                 /\ \/ /\ pc'[c] = "registration_insert"
                       /\ loc'[c].formData.email \notin auth_users
                       /\ auth_users' = auth_users \cup {loc'[c].formData.email}
                       /\ loc'[c].authUserId = loc'[c].formData.email
                    \/ /\ pc'[c] = "done"
                       /\ ~result'[c].success
                       /\ auth_users' = auth_users
       /\ \A u \in registrations' :
              (\A v \in registrations : v.id # u.id)
              => \E c \in Clients :
                     /\ pc[c] = "registration_insert"
                     /\ loc[c].formData.password # ""
                     /\ u.auth_id = loc[c].authUserId
                     /\ u.auth_id \in auth_users
                     /\ u.payment_completed = FALSE
                     /\ auth_users' = auth_users]_vars

C18_Witness ==
    \E c \in Clients :
        /\ Finished(c, "submitRegistration")
        /\ loc[c].formData = [email |-> "dave", category |-> Student, password |-> ""]
        /\ result[c] = Failure("Password is required for registration")
        /\ "dave" \notin auth_users
        /\ \E u \in registrations : u.auth_id = "erin" /\ ~u.payment_completed
        /\ \A u \in registrations : u.email # "dave"

\* C19: after a logout that completed, there is no session, the local
\* storage holds no identity and the page is on the login surface.
C19_LogoutClearsEverything ==
    \A c \in Clients :
        (Finished(c, "logout") /\ result[c].success)
        => /\ session = NoAuth
           /\ localStorage.current_user = Null
           /\ localStorage.currentUser = Null
           /\ location[c] = "/login.html"

\* C20: a guard (auth.requireAuth, auth.requireAdmin) that finds the session
\* or the admin role absent returns false, leaves the page where it is and
\* schedules one redirect; a guard that passes returns true and schedules
\* none.
C20_GuardsRedirectAfterDelay ==
    [][\A c \in Clients :
           (Starts(c, "requireAuth") \/ Starts(c, "requireAdmin"))
           => /\ pc'[c] = "done"
              /\ location' = location
              /\ IF result'[c]
                 THEN timer' = timer
                 ELSE \E t \in timer'[c] :
                          /\ t \notin timer[c]
                          /\ t.delay > 0
                          /\ timer'[c] = timer[c] \cup {t}]_vars

\* C22: a failure of the notification write or of the audit-log append never
\* aborts the primary action.  When the step of sendStatusUpdateEmail leaves
\* the notification log as it was, updatePaperStatus goes on to the audit
\* log with the updated record in place; when the step of logAdminActivity
\* leaves the activity log as it was, updatePaperStatus returns success with
\* the updated record stored, and deleteAllPapers returns success with its
\* count and no paper record left.
C22_LogFailureNeverAborts ==
    [][\A c \in Clients :
           /\ (pc[c] = "send_email" /\ pc'[c] # "send_email"
               /\ email_notifications' = email_notifications)
              => /\ pc'[c] = "log_activity"
                 /\ papers' = papers
                 /\ loc[c].data \in papers'
           /\ (pc[c] = "log_activity" /\ pc'[c] # "log_activity"
               /\ activity_logs' = activity_logs)
              => /\ pc'[c] = "done"
                 /\ result'[c].success = TRUE
                 /\ papers' = papers
                 /\ (loc[c].op = "updatePaperStatus")
                    => /\ result'[c].data = loc[c].data
                       /\ loc[c].data \in papers'
                 /\ (loc[c].op = "deleteAllPapers")
                    => /\ result'[c].count = loc[c].count
                       /\ papers' = {}]_vars

\* an updatePaperStatus has returned success although both the notification
\* write and the audit-log append were refused
C22_Witness ==
    \E c \in Clients :
        /\ Finished(c, "updatePaperStatus")
        /\ result[c].success = TRUE
        /\ loc[c].notified = "refused"
        /\ loc[c].logged = "refused"
        /\ loc[c].data \in papers
        /\ activity_logs = <<>>
        /\ email_notifications = <<>>

\* C23: the activity log is append-only and written on privileged paths
\* only.  Every step that changes the log is the logAdminActivity step of an
\* operation whose caller has an active Admin row at that moment; it keeps
\* every existing entry in its place and adds one entry at the end, which
\* carries the id, email and role of that Admin row.
C23_LogAppendOnlyByAdmin ==
    [][activity_logs' # activity_logs
       => \E c \in Clients :
              /\ pc[c] = "log_activity"
              /\ loc[c].op \in {"updatePaperStatus", "deleteAllPapers"}
              /\ ActiveAdmin(loc[c].caller)
              /\ Len(activity_logs') = Len(activity_logs) + 1
              /\ SubSeq(activity_logs', 1, Len(activity_logs)) = activity_logs
              /\ \E r \in admins :
                     /\ r.auth_id = loc[c].caller
                     /\ r.is_active
                     /\ activity_logs'[Len(activity_logs')].admin_id = r.id
                     /\ activity_logs'[Len(activity_logs')].actor_email = r.email
                     /\ activity_logs'[Len(activity_logs')].actor_role = r.role]_vars

\* a second entry has been appended behind an entry that is still there
C23_Witness ==
    /\ Len(activity_logs) = 2
    /\ activity_logs[1].action_type = "paper_status_update"
    /\ \E c \in Clients :
           /\ pc[c] = "done"
           /\ loc[c].op \in {"updatePaperStatus", "deleteAllPapers"}
           /\ result[c].success = TRUE
           /\ loc[c].logged = "written"

\* C26: the file_url of every stored paper record names an object that
\* exists in the papers bucket, whatever steps of uploadPaper, deletePaper,
\* adminDeletePaper and deleteAllPapers have run, failing steps included.
\* Stated for the states in which no operation is under way, so that the
\* moment between the two calls of a delete does not count.
C26_RecordImpliesFile ==
    (\A c \in Clients : pc[c] = "idle")
    => \A p \in papers : p.file_url \in bucket

LogCalls == {"email_notifications.insert", "window.open", "activity_logs.insert"}

\* C29: whenever updatePaperStatus returns a failure result, it has written
\* no notification-log entry and no activity-log entry and has opened no
\* mail composer: the failure is returned in the step of the call, with both
\* logs and the paper records as they were and none of the three calls
\* issued.
C29_FailedUpdateWritesNothing ==
    [][\A c \in Clients :
           (pc[c] # "done" /\ pc'[c] = "done" /\ loc'[c].op = "updatePaperStatus"
            /\ result'[c].success = FALSE)
           => /\ Starts(c, "updatePaperStatus")
              /\ email_notifications' = email_notifications
              /\ activity_logs' = activity_logs
              /\ papers' = papers
              /\ \A i \in 1..Len(loc'[c].net) : loc'[c].net[i] \notin LogCalls]_vars

\* an admin's update of a stored paper has been refused by the backend and
\* the logs are empty
C29_Witness ==
    \E c \in Clients :
        /\ Finished(c, "updatePaperStatus")
        /\ result[c] = Failure("papers update failed")
        /\ ActiveAdmin(loc[c].caller)
        /\ Stored(loc[c].paperId) # {}
        /\ activity_logs = <<>>
        /\ email_notifications = <<>>

PublicOps ==
    {"uploadPaper", "deletePaper", "updatePaperStatus", "adminDeletePaper",
     "deleteAllPapers", "submitRegistration", "processPayment", "login", "logout"}

\* a returned success/failure value: a success flag, an error message with a
\* failure, and not the settlement of a rejected promise
Uniform(r) ==
    /\ "success" \in DOMAIN r
    /\ r.success \in BOOLEAN
    /\ (r.success = FALSE) => "error" \in DOMAIN r
    /\ "settled" \in DOMAIN r => r.settled # "rejected"

\* C21: every public workflow operation (uploadPaper, deletePaper,
\* updatePaperStatus, adminDeletePaper, deleteAllPapers, submitRegistration,
\* processPayment, login, logout) hands every outcome to its caller as a
\* uniform success/failure value and never raises or rejects.
C21_UniformResults ==
    \A c \in Clients :
        (pc[c] = "done" /\ loc[c].op \in PublicOps) => Uniform(result[c])

\* C21, amended: every public workflow operation other than processPayment
\* returns a uniform success/failure value; processPayment resolves with
\* success or rejects, with "Payment cancelled by user" when the checkout was
\* dismissed and with "Failed to save payment record" when the payment row
\* could not be saved, and with the error of the checkout when it could not
\* be opened.
C21_UniformExceptPayment ==
    \A c \in Clients :
        /\ (pc[c] = "done" /\ loc[c].op \in PublicOps \ {"processPayment"})
           => Uniform(result[c])
        /\ (pc[c] = "done" /\ loc[c].op = "processPayment")
           => \/ result[c] = Resolved
              \/ /\ result[c] = Rejected("Payment cancelled by user")
                 /\ loc[c].event = "dismiss"
              \/ /\ result[c] = Rejected("Failed to save payment record")
                 /\ loc[c].event = "handler"
              \/ /\ result[c] = Rejected("Razorpay is not defined")
                 /\ loc[c].event = "catch"

\* a processPayment has rejected because the payment row was refused, after a
\* registration that returned its result
C21_Witness ==
    \E c \in Clients :
        /\ Finished(c, "processPayment")
        /\ result[c] = Rejected("Failed to save payment record")
        /\ registrations # {}
        /\ payments = {}

AdminPanelOps ==
    {"updatePaperStatus", "adminDeletePaper", "deleteAllPapers", "adminUpdatePaymentStatus"}

\* C28: every admin-panel operation that mutates records (updatePaperStatus,
\* adminDeletePaper, deleteAllPapers, adminUpdatePaymentStatus) first checks
\* that its caller resolves to an active Admin: called by anyone else it
\* returns at once and changes no paper record, no stored file and no users
\* row.
C28_AdminOpsCheckAdmin ==
    [][\A c \in Clients :
           ((\E op \in AdminPanelOps : Starts(c, op)) /\ ~ActiveAdmin(session))
           => /\ pc'[c] = "done"
              /\ papers' = papers
              /\ bucket' = bucket
              /\ registrations' = registrations]_vars

\* C30: in every reachable state, a users row with payment_completed = true
\* has at least one payment row with status completed, after any sequence of
\* submitRegistration, processPayment, updateUserPaymentStatus and
\* adminUpdatePaymentStatus.
C30_PaidImpliesPaymentRecord ==
    \A u \in registrations :
        u.payment_completed
        => \E p \in payments : p.user_id = u.id /\ p.status = "completed"

\* C24: the paper lifecycle has no enforced ordering and no terminal state.
\* Whenever the tab is free to start an operation, for every stored paper,
\* whatever its status, and for every one of the five statuses, an admin's
\* updatePaperStatus can be called on the paper and can leave it stored with
\* that status, and an admin's adminDeletePaper can be called on it and can
\* go on to its deletion.
C24_AnyStatusToAnyStatus ==
    \A c \in Solo : \A p \in papers :
        CanStart(c)
        => /\ \A st \in KnownStatuses :
                  ENABLED (/\ updatePaperStatus(c, "root", p.id, st, "")
                           /\ \E q \in papers' : q.id = p.id /\ q.status = st)
           /\ ENABLED (/\ adminDeletePaper(c, "root", p.id)
                       /\ pc'[c] = "admin_delete_storage")

\* an accepted paper has been moved back to pending: both updates are in the
\* activity log and the paper is stored as pending
C24_Witness ==
    /\ Len(activity_logs) = 2
    /\ activity_logs[1].new_data.new_status = "accepted"
    /\ activity_logs[2].new_data.new_status = "pending"
    /\ activity_logs[1].target_id = activity_logs[2].target_id
    /\ \E p \in papers : p.id = activity_logs[2].target_id /\ p.status = "pending"

\* C25: under every interleaving of an owner's deletePaper with an admin's
\* updatePaperStatus on the same paper, the step in which deletePaper removes
\* the record removes only a record whose status is pending at that moment.
C25_OwnerDeletesOnlyPending ==
    [][\A c \in Clients :
           (pc[c] = "delete_record" /\ pc'[c] = "done")
           => \A p \in papers \ papers' : p.status = "pending"]_vars

\* C27: under every interleaving of deleteAllPapers with a concurrent
\* uploadPaper, the count that a successful deleteAllPapers returns and
\* writes to the activity log equals the number of paper records its delete
\* removed.
C27_CountEqualsDeleted ==
    [][\A c \in Clients :
           (pc[c] = "delete_all_records" /\ pc'[c] = "log_activity")
           => Cardinality(papers \ papers') = loc'[c].count]_vars

====
